---- MODULE Spec2Model ----
(***************************************************************************)
(* Model of zenOSmosis/sync-object: the SyncObject state store and the     *)
(* BidirectionalSyncObject channel (revision with debounced forceFullSync  *)
(* and verifyReadOnlySyncUpdateHash, src/unnamed/part_000).                *)
(*                                                                         *)
(* Two peers are modelled in the direction A -> B: peer A's writable       *)
(* store with the outbound half of A's channel, and peer B's read-only     *)
(* store with the inbound half of B's channel.  The transport between the  *)
(* two is the environment.  Time is discrete, one unit = 1000 ms.          *)
(***************************************************************************)
EXTENDS Integers, Sequences, FiniteSets, TLC

(***************************************************************************)
(* Bounds of the model.                                                    *)
(***************************************************************************)
\* messages the transport holds per direction before it must deliver
MaxInFlight == 1
\* calls (setState, forceFullSync) the application of peer A makes
MaxCalls == 2
\* cap of the counter of coalesced forceFullSync triggers (saturating)
MaxTriggers == 2

(***************************************************************************)
(* Construction options of the channels, in units of 1000 ms.  The wait of *)
(* the verify debounce is half of writeResyncThreshold.                    *)
(***************************************************************************)
OptWriteResyncThreshold == 4
OptFullStateDebounceTimeout == 1

\* a timer id that is null or whose timeout has been cleared or has fired
NoTimer == -1

\* DEFAULT_WRITE_RESYNC_THRESHOLD (8000 ms) and
\* DEFAULT_FULL_STATE_DEBOUNCE_TIMEOUT (1000 ms)
DefaultWriteResyncThreshold == 8
DefaultFullStateDebounceTimeout == 1

(***************************************************************************)
(* SyncObject state.  A state tree is held as a map from key paths to leaf *)
(* values; the domain is prefix-free.  The leaf "{}" is an empty mapping,  *)
(* "array" stands for an array value.                                      *)
(***************************************************************************)
EmptyState == [p \in {} |-> ""]

IsPrefix(p, q) == Len(p) <= Len(q) /\ SubSeq(q, 1, Len(p)) = p

IsProperPrefix(p, q) == Len(p) < Len(q) /\ SubSeq(q, 1, Len(p)) = p

\* the key path names a mapping node of s
IsObjectAt(s, q) ==
    \/ \E p \in DOMAIN s : IsProperPrefix(q, p)
    \/ (q \in DOMAIN s /\ s[q] = "{}")

\* the key path names a key of s (a leaf or a mapping node)
HasKeyAt(s, q) == q \in DOMAIN s \/ \E p \in DOMAIN s : IsProperPrefix(q, p)

\* a state that is no mapping at its root (an array, null, a primitive, a
\* class instance) is the one-entry map from the empty path to that value
IsMappingAtRoot(state) == << >> \notin DOMAIN state

\* a validation whose walk does not reject arrays
validateStateArrays(state) ==
    /\ IsMappingAtRoot(state)
    /\ \A p \in DOMAIN state : state[p] \notin {"cyclic", "function"}

\* SyncObject.validateState: isPlainObject at the root, JSON.stringify (a
\* cyclic structure throws), then the walk over the own keys, which rejects
\* functions and arrays and descends into every other object
validateState(state) ==
    /\ IsMappingAtRoot(state)
    /\ \A p \in DOMAIN state : state[p] \notin {"cyclic", "function", "array"}

\* object-path getKey: a key that reads as an integer becomes a number
IsNumericKey(key) == key \in {"0"}

\* intermediate segments of p at which object-path set finds nothing (no own
\* property, or the value undefined) while the next key is a number: it
\* creates an array there, recorded by the entry "[]" at that node
createdArrays(s, p) ==
    { q \in { SubSeq(p, 1, i) : i \in 1..(Len(p) - 1) } :
        /\ ~HasKeyAt(s, q) \/ (q \in DOMAIN s /\ s[q] = "undefined")
        /\ IsNumericKey(p[Len(q) + 1]) }

\* object-path set(obj, path, value): walks the path, creating missing
\* mapping nodes; assigning a property on a primitive throws TypeError.
objectPathSetThrows(s, p) ==
    \E i \in 1..(Len(p) - 1) :
        LET q == SubSeq(p, 1, i)
        IN  q \in DOMAIN s /\ s[q] \notin {"{}", "undefined", "[]", "instance"}

\* a set that takes undefined for a deletion
objectPathSetDeletes(s, p, v) ==
    LET keep == { q \in DOMAIN s :
                    ~IsPrefix(p, q) /\ ~(IsProperPrefix(q, p) /\ s[q] # "[]") }
        arrays == createdArrays(s, p)
        written == IF v = "undefined" THEN {} ELSE {p}
    IN  [ q \in keep \cup arrays \cup written |->
            IF q = p THEN v ELSE IF q \in arrays THEN "[]" ELSE s[q] ]

objectPathSet(s, p, v) ==
    LET keep == { q \in DOMAIN s :
                    ~IsPrefix(p, q) /\ ~(IsProperPrefix(q, p) /\ s[q] # "[]") }
        arrays == createdArrays(s, p)
    IN  [ q \in keep \cup arrays \cup {p} |->
            IF q = p THEN v ELSE IF q \in arrays THEN "[]" ELSE s[q] ]

\* the catch block of setState: the parent path is set to {} and the write
\* is retried
objectPathSetRepaired(s, p, v) ==
    IF ~objectPathSetThrows(s, p)
    THEN objectPathSet(s, p, v)
    ELSE objectPathSet(objectPathSet(s, SubSeq(p, 1, Len(p) - 1), "{}"), p, v)

\* the catch block throws in turn when a segment above the parent holds a
\* value that takes no property: setting the parent path raises TypeError
objectPathSetRepairThrows(s, p) ==
    /\ objectPathSetThrows(s, p)
    /\ objectPathSetThrows(s, SubSeq(p, 1, Len(p) - 1))

\* the merge loop over the entries of flatten(updatedState), in one of the
\* orders the keys of an update can have; an error ends it and leaves the
\* writes made so far
RECURSIVE mergePaths(_, _, _)
mergePaths(s, u, todo) ==
    IF todo = {} THEN [state |-> s, threw |-> FALSE]
    ELSE LET p == CHOOSE x \in todo : TRUE
         IN  IF objectPathSetRepairThrows(s, p)
             THEN [state |-> s, threw |-> TRUE]
             ELSE mergePaths(objectPathSetRepaired(s, p, u[p]), u, todo \ {p})

\* the state after the merge loop over flatten(updatedState)
mergedState(s, u) == mergePaths(s, u, DOMAIN u).state

\* the merge loop ends with an error
mergeThrows(s, u) == mergePaths(s, u, DOMAIN u).threw

\* deepMerge(addedDiff(state, update), updatedDiff(state, update)) as a path
\* map: an entry of the update belongs to the diff when its path leaves the
\* keys of the state, meets a leaf of the state on the way, or ends on a
\* value that differs (a path beneath a leaf of the state has left its keys).
\* a diff of the added keys only
inAddedDiff(s, u, p) ==
    \E i \in 1..Len(p) : ~HasKeyAt(s, SubSeq(p, 1, i))

inDiff(s, u, p) ==
    \/ \E i \in 1..Len(p) : ~HasKeyAt(s, SubSeq(p, 1, i))
    \/ (p \in DOMAIN s /\ s[p] # u[p])
    \/ (IsObjectAt(s, p) /\ p \notin DOMAIN s)

diffedUpdatedState(s, u) ==
    LET changed == { p \in DOMAIN u : inDiff(s, u, p) }
    IN  [ p \in changed |-> u[p] ]

\* a setState that replaces the state only when the update has keys
setStateResultKeepsOnEmpty(state, updatedState, isMerge) ==
    IF ~validateState(updatedState) THEN state
    ELSE IF isMerge \/ DOMAIN updatedState = {} THEN mergedState(state, updatedState)
    ELSE updatedState

\* the state setState(updatedState, isMerge) leaves
setStateResult(state, updatedState, isMerge) ==
    IF ~validateState(updatedState) THEN state
    ELSE IF isMerge THEN mergedState(state, updatedState)
    ELSE updatedState

\* a setState whose error is absorbed
setStateAbsorbs(state, updatedState, isMerge) == FALSE

\* setState(updatedState, isMerge) throws: the validation, or the merge loop
setStateThrows(state, updatedState, isMerge) ==
    \/ ~validateState(updatedState)
    \/ (isMerge /\ mergeThrows(state, updatedState))

\* object-hash of the state: a digest of the key/value pairs that does not
\* depend on key order; modelled as collision-free
getHash(state) == { <<p, state[p]>> : p \in DOMAIN state }

\* the own keys of the root mapping of a state
TopKeys(state) == { p[1] : p \in { q \in DOMAIN state : Len(q) > 0 } }

Range(keys) == { keys[i] : i \in 1..Len(keys) }

RECURSIVE Enumerate(_)
Enumerate(keySet) ==
    IF keySet = {} THEN << >>
    ELSE LET key == CHOOSE k \in keySet : TRUE
         IN  << key >> \o Enumerate(keySet \ {key})

\* Object.keys of a state as the application wrote it
objectKeys(state) == Enumerate(TopKeys(state))

\* Object.keys(this._state) after setState: a replacement takes the keys of
\* the update; a merge leaves the keys the state has where they are and
\* appends the keys it adds
setStateKeys(keys, state, updatedState, isMerge) ==
    IF ~validateState(updatedState) THEN keys
    ELSE IF isMerge
    THEN keys \o Enumerate(TopKeys(mergedState(state, updatedState)) \ Range(keys))
    ELSE objectKeys(updatedState)

\* the root keys of the inputs in ascending order
SortedKeys == << "a", "b", "z" >>

\* a hash that walks the keys in insertion order
keysUnsorted(keys) == keys

\* object-hash with its default unorderedObjects: Object.keys(object).sort()
sortKeys(keys) == SelectSeq(SortedKeys, LAMBDA key : key \in Range(keys))

\* object-hash of a store's state: the digest of its keys, walked in sorted
\* order, each with the digest of its value
objectHash(keys, state) ==
    LET sorted == sortKeys(keys)
    IN  [ i \in 1..Len(sorted) |->
            << sorted[i],
               getHash([ p \in { q \in DOMAIN state : Len(q) > 0 /\ q[1] = sorted[i] }
                           |-> state[p] ]) >> ]

(***************************************************************************)
(* Inputs.                                                                 *)
(***************************************************************************)
\* states a supplied SyncObject may hold when the channel is constructed
InitStates ==
    { EmptyState,
      [p \in {<<"a">>} |-> "2"] }

\* states the application passes to setState, or a peer to receiveReadOnlyState
Updates ==
    { EmptyState,
      [p \in {<<"a">>} |-> "1"],
      [p \in {<<"a">>} |-> "2"],
      [p \in {<<"a">>} |-> "array"] }

\* initial states an application passes to new SyncObject(initialState):
\* {}, {a: {b: 1}}, {a: {b: 1, 0: 2}}, {a: null}, {a: 1}, and states with an
\* array, a function, a cyclic reference or a class instance
StoreStates ==
    { EmptyState,
      <<"a", "b">> :> "1",
      (<<"a", "b">> :> "1") @@ (<<"a", "0">> :> "2"),
      <<"a">> :> "null",
      <<"a">> :> "1",
      <<"z">> :> "array",
      <<"a", "z">> :> "function",
      <<"z">> :> "cyclic",
      << >> :> "array",
      << >> :> "instance",
      <<"z">> :> "instance" }

\* updates an application passes to setState(updatedState, isMerge)
StoreUpdates ==
    { EmptyState,
      <<"a", "b">> :> "1",
      <<"a", "b">> :> "2",
      <<"a", "c">> :> "2",
      <<"a", "0">> :> "1",
      <<"a", "b">> :> "null",
      <<"a", "b", "c">> :> "1",
      <<"a">> :> "{}",
      <<"a">> :> "null",
      <<"a">> :> "undefined",
      <<"b">> :> "undefined",
      <<"a", "z">> :> "array",
      <<"z">> :> "function",
      << >> :> "instance",
      <<"z">> :> "instance" }

\* updates two stores are set with, in any order
HashUpdates ==
    { EmptyState,
      <<"a">> :> "1",
      <<"a">> :> "2",
      <<"b">> :> "1",
      <<"a", "b">> :> "1" }

\* merges a source store is set with while a replica follows its diffs:
\* the valid updates, and {b: 1, a: {b: {c: 1}}}
ReplayUpdates ==
    { u \in StoreUpdates : validateState(u) } \cup
    { (<<"b">> :> "1") @@ (<<"a", "b", "c">> :> "1") }

\* fingerprints a peer may announce
Hashes == { { <<p, u[p]>> : p \in DOMAIN u } : u \in Updates }

(***************************************************************************)
(* State.                                                                  *)
(***************************************************************************)
VARIABLES
    writable,                         \* peer A: _writableSyncObject._state
    readOnly,                         \* peer B: _readOnlySyncObject._state
    writableKeys,                     \* peer A: Object.keys(_writableSyncObject._state)
    readOnlyKeys,                     \* peer B: Object.keys(_readOnlySyncObject._state)
    writeSyncVerificationTimeout,     \* peer A: time left on the deadline timer
    orphanedTimeouts,                 \* peer A: deadline timers left pending, their ids overwritten
    forceFullSyncTimeout,             \* peer A: debounce timer of forceFullSync
    forceFullSyncArgs,                \* peer A: reason of the latest forceFullSync call
    verifyTimeout,                    \* peer A: debounce timer of verifyReadOnlySyncUpdateHash
    verifyArgs,                       \* peer A: hash of the latest verify call
    verifyResult,                     \* peer A: result kept by the verify debounce
    readOnlySyncHashVerifierTimeout,  \* peer B: timer of the second announcement
    toB,                              \* transport: partial-sync / full-sync events of A
    toA,                              \* transport: fingerprint announcements of B
    emittedA,                         \* events A emitted in the last step
    emittedB,                         \* events B emitted in the last step
    lastOp,                           \* the operation of the last step
    triggers,                         \* forceFullSync calls coalesced in the open window
    matchedWhilePending,              \* a match has run since the latest forceFullSync call, still pending
    sinceTrigger,                     \* time since the latest forceFullSync call
    sincePartial,                     \* time since an unanswered partial-sync
    sinceReceive,                     \* time since a receive whose second announcement is due
    idleSinceMatch,                   \* a match found the deadline armed, no trigger since
    calls,                            \* calls the application of peer A has made
    channel,                          \* "none", "constructed", "threw" or "destroyed"
    syncObjects,                      \* instances the channel holds as writable / readOnly
    cleanupSyncObjects,               \* instances a registered cleanup handler destroys
    destroyedSyncObjects,             \* instances that have been destroyed
    options                           \* this._options of the channel

vars == << writable, readOnly, writableKeys, readOnlyKeys, writeSyncVerificationTimeout,
           orphanedTimeouts, forceFullSyncTimeout,
           forceFullSyncArgs, verifyTimeout, verifyArgs, verifyResult,
           readOnlySyncHashVerifierTimeout, toB, toA, emittedA, emittedB, lastOp,
           triggers, matchedWhilePending, sinceTrigger, sincePartial, sinceReceive,
           idleSinceMatch, calls,
           channel, syncObjects, cleanupSyncObjects, destroyedSyncObjects, options >>

\* the outbound half of peer A's channel
writableVars == << writable, writableKeys, writeSyncVerificationTimeout,
                   orphanedTimeouts, forceFullSyncTimeout,
                   forceFullSyncArgs, verifyTimeout, verifyArgs, verifyResult,
                   triggers, matchedWhilePending, sinceTrigger, sincePartial,
                   idleSinceMatch, calls >>
\* the inbound half of peer B's channel
readOnlyVars == << readOnly, readOnlyKeys, readOnlySyncHashVerifierTimeout, sinceReceive >>
netVars == << toB, toA >>
\* the channel object and the SyncObject instances it holds
instanceVars == << channel, syncObjects, cleanupSyncObjects, destroyedSyncObjects,
                   options >>

\* SyncObject instances the application has created: 1, 2; 0 is null
Supplied == {1, 2}
NoSyncObjects == [writable |-> 0, readOnly |-> 0]

\* DEFAULT_OPTIONS of the constructor
DEFAULT_OPTIONS ==
    ("writeResyncThreshold" :> DefaultWriteResyncThreshold) @@
    ("fullStateDebounceTimeout" :> DefaultFullStateDebounceTimeout)

\* an options object without keys
NoOptions == [k \in {} |-> 0]

\* the options the application passes in the specifications of two peers
AppOptions ==
    ("writeResyncThreshold" :> OptWriteResyncThreshold) @@
    ("fullStateDebounceTimeout" :> OptFullStateDebounceTimeout)

\* the options objects an application may pass: none of the two keys, one of
\* them, or both
SuppliedOptions ==
    { NoOptions,
      "writeResyncThreshold" :> OptWriteResyncThreshold,
      "fullStateDebounceTimeout" :> OptFullStateDebounceTimeout + 1,
      ("writeResyncThreshold" :> OptWriteResyncThreshold) @@
      ("fullStateDebounceTimeout" :> OptFullStateDebounceTimeout + 1) }

\* { ...DEFAULT_OPTIONS, options }: the supplied object nested under a key of
\* its own, the defaults left as they are
optionsNested(defaults, opts) == defaults

\* { ...DEFAULT_OPTIONS, ...options }, kept by the base class as this._options
mergeOptions(defaults, opts) ==
    [k \in DOMAIN defaults \cup DOMAIN opts |->
        IF k \in DOMAIN opts THEN opts[k] ELSE defaults[k]]

\* getOptions()
getOptions == options

\* this._options
writeResyncThreshold == options.writeResyncThreshold
fullStateDebounceTimeout == options.fullStateDebounceTimeout

\* wait of the verifyReadOnlySyncUpdateHash debounce
verifyDebounceWait == writeResyncThreshold \div 2

NoOp == [op |-> "none", state |-> EmptyState, prev |-> EmptyState, isMerge |-> TRUE,
         hash |-> {}, ret |-> "void", n |-> 0, waited |-> 0, age |-> -1,
         reason |-> "none", w |-> 0, r |-> 0, options |-> NoOptions]

PartialSync(state) == [type |-> "partial", state |-> state]
FullSync(state) == [type |-> "full", state |-> state]

Cap(n, max) == IF n > max THEN max ELSE n

Remove(q, i) == SubSeq(q, 1, i - 1) \o SubSeq(q, i + 1, Len(q))

(***************************************************************************)
(* The state a constructor leaves: no timer armed, nothing emitted.        *)
(***************************************************************************)
Idle ==
    /\ writeSyncVerificationTimeout = NoTimer
    /\ orphanedTimeouts = {}
    /\ forceFullSyncTimeout = NoTimer
    /\ forceFullSyncArgs = "none"
    /\ verifyTimeout = NoTimer
    /\ verifyArgs = {}
    /\ verifyResult = "undefined"
    /\ readOnlySyncHashVerifierTimeout = NoTimer
    /\ toB = << >>
    /\ toA = << >>
    /\ emittedA = << >>
    /\ emittedB = << >>
    /\ lastOp = NoOp
    /\ triggers = 0
    /\ matchedWhilePending = FALSE
    /\ sinceTrigger = 0
    /\ sincePartial = -1
    /\ sinceReceive = -1
    /\ idleSinceMatch = FALSE
    /\ calls = 0
    /\ cleanupSyncObjects = {}
    /\ destroyedSyncObjects = {}

\* both channels constructed, each store supplied by the application
Init ==
    /\ writable \in InitStates
    /\ readOnly \in InitStates
    /\ writableKeys = objectKeys(writable)
    /\ readOnlyKeys = objectKeys(readOnly)
    /\ channel = "constructed"
    /\ syncObjects = [writable |-> 1, readOnly |-> 2]
    /\ options = mergeOptions(DEFAULT_OPTIONS, AppOptions)
    /\ Idle

(***************************************************************************)
(* Construction of a channel.                                              *)
(***************************************************************************)
\* a constructor that skips the check of the two stores
sameInstanceAccepted(writableSyncObject, readOnlySyncObject) == FALSE

\* the constructor's check: both stores supplied and getIsSameInstance
sameInstanceRejected(writableSyncObject, readOnlySyncObject) ==
    /\ writableSyncObject # 0
    /\ readOnlySyncObject # 0
    /\ writableSyncObject = readOnlySyncObject

\* _makeSyncObject: the k-th SyncObject the constructor creates
makeSyncObject(k) == Cardinality(Supplied) + k

\* a _makeSyncObject that registers no cleanup handler
makeSyncObjectUnowned(syncObject) == {}

\* _makeSyncObject: registerCleanupHandler(() => syncObject.destroy())
makeSyncObjectCleanup(syncObject) == {syncObject}

\* a constructor that arms the verification deadline
constructedTimeoutArmed(threshold) == threshold

\* the constructor: this._writeSyncVerificationTimeout = null, whatever the
\* threshold of the options
constructedTimeout(threshold) == NoTimer

\* new BidirectionalSyncObject(writableSyncObject, readOnlySyncObject, opts);
\* a supplied read-only store holds any valid state, a created one the empty
\* state
ConstructWithOptions(writableSyncObject, readOnlySyncObject, opts) ==
    /\ channel = "none"
    /\ lastOp' = [NoOp EXCEPT !.op = "new", !.w = writableSyncObject,
                              !.r = readOnlySyncObject, !.options = opts]
    /\ IF sameInstanceRejected(writableSyncObject, readOnlySyncObject)
       THEN /\ channel' = "threw"
            /\ UNCHANGED << syncObjects, cleanupSyncObjects, readOnly, readOnlyKeys,
                            options, writeSyncVerificationTimeout >>
       ELSE /\ channel' = "constructed"
            /\ options' = mergeOptions(DEFAULT_OPTIONS, opts)
            /\ writeSyncVerificationTimeout' =
                   constructedTimeout(options'.writeResyncThreshold)
            /\ syncObjects' =
                   [writable |-> IF writableSyncObject # 0 THEN writableSyncObject
                                 ELSE makeSyncObject(1),
                    readOnly |-> IF readOnlySyncObject # 0 THEN readOnlySyncObject
                                 ELSE IF writableSyncObject # 0 THEN makeSyncObject(1)
                                 ELSE makeSyncObject(2)]
            /\ cleanupSyncObjects' =
                   UNION { makeSyncObjectCleanup(syncObject) :
                             syncObject \in { syncObjects'.writable,
                                              syncObjects'.readOnly } \ Supplied }
            /\ IF readOnlySyncObject # 0
               THEN readOnly' \in InitStates
               ELSE readOnly' = EmptyState
            /\ readOnlyKeys' = objectKeys(readOnly')
    /\ emittedA' = << >>
    /\ emittedB' = << >>
    /\ UNCHANGED << writable, writableKeys, orphanedTimeouts, forceFullSyncTimeout,
                    forceFullSyncArgs, verifyTimeout, verifyArgs, verifyResult,
                    triggers, matchedWhilePending, sinceTrigger, sincePartial,
                    idleSinceMatch, calls >>
    /\ UNCHANGED << readOnlySyncHashVerifierTimeout, sinceReceive, netVars,
                    destroyedSyncObjects >>

\* new BidirectionalSyncObject(writableSyncObject, readOnlySyncObject, options)
\* by the application of peer B
Construct(writableSyncObject, readOnlySyncObject) ==
    ConstructWithOptions(writableSyncObject, readOnlySyncObject, AppOptions)

(***************************************************************************)
(* Construction of a store.                                                *)
(***************************************************************************)
\* the application creates its writable store with new SyncObject(initialState)
\* and, when that succeeds, a channel over it and a second store of its own
NewSyncObject(initialState) ==
    /\ channel = "none"
    /\ lastOp' = [NoOp EXCEPT !.op = "newSyncObject", !.state = initialState,
                              !.ret = IF validateState(initialState) THEN "void"
                                      ELSE "TypeError"]
    /\ IF validateState(initialState)
       THEN /\ writable' = initialState
            /\ writableKeys' = objectKeys(initialState)
            /\ channel' = "constructed"
            /\ syncObjects' = [writable |-> 1, readOnly |-> 2]
            /\ options' = mergeOptions(DEFAULT_OPTIONS, AppOptions)
       ELSE UNCHANGED << writable, writableKeys, channel, syncObjects, options >>
    /\ emittedA' = << >>
    /\ emittedB' = << >>
    /\ UNCHANGED << readOnlyVars, writeSyncVerificationTimeout, orphanedTimeouts,
                    forceFullSyncTimeout,
                    forceFullSyncArgs, verifyTimeout, verifyArgs, verifyResult,
                    triggers, matchedWhilePending, sinceTrigger, sincePartial,
                    idleSinceMatch, calls, cleanupSyncObjects, destroyedSyncObjects >>

(***************************************************************************)
(* Teardown of a channel.                                                  *)
(***************************************************************************)
\* setTimeout callbacks and debounced runs do not look at the channel's
\* lifecycle: a timer that is pending runs
TimersRun == channel \in {"constructed", "destroyed"}

\* a cleanup that leaves the forceFullSync debounce pending
forceFullSyncNotCleared ==
    UNCHANGED << forceFullSyncTimeout, forceFullSyncArgs, triggers, sinceTrigger,
                 matchedWhilePending >>

\* the cleanup handler this.forceFullSync.clear()
forceFullSyncClear ==
    /\ forceFullSyncTimeout' = NoTimer
    /\ triggers' = 0
    /\ matchedWhilePending' = FALSE
    /\ sinceTrigger' = 0
    /\ UNCHANGED forceFullSyncArgs

\* the cleanup handler this.verifyReadOnlySyncUpdateHash.clear()
verifyClear ==
    /\ verifyTimeout' = NoTimer
    /\ UNCHANGED << verifyArgs, verifyResult >>

\* super.destroy(): the lifecycle base class runs the registered cleanup
\* handlers before the returned promise resolves; every handler is
\* synchronous up to the destroy() of a created store, so no timer runs in
\* between
superDestroy ==
    /\ destroyedSyncObjects' = destroyedSyncObjects \cup cleanupSyncObjects
    /\ forceFullSyncClear
    /\ verifyClear
    /\ channel' = "destroyed"

\* destroy()
Destroy ==
    /\ channel = "constructed"
    /\ writeSyncVerificationTimeout' = NoTimer
    /\ superDestroy
    /\ lastOp' = [NoOp EXCEPT !.op = "destroy"]
    /\ sincePartial' = -1
    /\ emittedA' = << >>
    /\ emittedB' = << >>
    /\ UNCHANGED << syncObjects, cleanupSyncObjects, options, writable, writableKeys,
                    readOnlyVars, idleSinceMatch, calls, orphanedTimeouts >>

(***************************************************************************)
(* Peer A, outbound half.                                                  *)
(***************************************************************************)
\* a throttle in place of the debounce: a call made while a run is pending
\* does not restart the wait
forceFullSyncThrottled(reason) ==
    /\ forceFullSyncTimeout' = IF forceFullSyncTimeout = NoTimer
                               THEN fullStateDebounceTimeout
                               ELSE forceFullSyncTimeout
    /\ forceFullSyncArgs' = reason
    /\ triggers' = Cap(triggers + 1, MaxTriggers)
    /\ matchedWhilePending' = FALSE
    /\ sinceTrigger' = 0

\* debounce(func, wait, false): every call records its arguments and
\* restarts the wait; func runs once, on the trailing edge, and the recorded
\* arguments are dropped
forceFullSyncDebounced(reason) ==
    /\ forceFullSyncTimeout' = fullStateDebounceTimeout
    /\ forceFullSyncArgs' = reason
    /\ triggers' = Cap(triggers + 1, MaxTriggers)
    /\ matchedWhilePending' = FALSE
    /\ sinceTrigger' = 0

\* _sendUpdateWriteEvent
sendUpdateWriteEvent(partialNextState) ==
    emittedA' = << PartialSync(partialNextState) >>

\* _sendFullWriteEvent
sendFullWriteEvent ==
    emittedA' = << FullSync(writable) >>

\* a listener that emits the partial-sync and arms no deadline
writableDidPartiallyUpdateUnarmed(partialNextState) ==
    /\ sendUpdateWriteEvent(partialNextState)
    /\ writeSyncVerificationTimeout' = NoTimer
    /\ sincePartial' = 0
    /\ idleSinceMatch' = FALSE

\* _writableDidPartiallyUpdate, the listener of the writable store's EVT_UPDATED
writableDidPartiallyUpdate(partialNextState) ==
    /\ sendUpdateWriteEvent(partialNextState)
    /\ writeSyncVerificationTimeout' = writeResyncThreshold
    /\ sincePartial' = 0
    /\ idleSinceMatch' = FALSE

\* a store that emits EVT_UPDATED also when the diff is empty
writableDidUpdateEmpty == writableDidPartiallyUpdate(EmptyState)

\* the writable store did not emit EVT_UPDATED
writableDidNotUpdate ==
    /\ emittedA' = << >>
    /\ UNCHANGED << writeSyncVerificationTimeout, sincePartial, idleSinceMatch >>

\* the application calls setState(updatedState, isMerge) on A's writable store
SetState(updatedState, isMerge) ==
    /\ channel = "constructed"
    /\ UNCHANGED instanceVars
    /\ UNCHANGED orphanedTimeouts
    /\ calls < MaxCalls
    /\ calls' = calls + 1
    /\ emittedB' = << >>
    /\ UNCHANGED << readOnlyVars, forceFullSyncTimeout, forceFullSyncArgs,
                    verifyTimeout, verifyArgs, verifyResult, triggers, sinceTrigger,
                    matchedWhilePending >>
    /\ writable' = setStateResult(writable, updatedState, isMerge)
    /\ writableKeys' = setStateKeys(writableKeys, writable, updatedState, isMerge)
    /\ IF setStateThrows(writable, updatedState, isMerge)
       THEN /\ lastOp' = [NoOp EXCEPT !.op = "setState", !.state = updatedState,
                                      !.prev = writable, !.isMerge = isMerge,
                                      !.ret = "TypeError"]
            /\ writableDidNotUpdate
       ELSE IF ~isMerge
       THEN /\ lastOp' = [NoOp EXCEPT !.op = "setState", !.state = updatedState,
                                      !.prev = writable, !.isMerge = FALSE]
            /\ writableDidPartiallyUpdate(updatedState)
       ELSE LET diff == diffedUpdatedState(writable, updatedState)
            IN  /\ lastOp' = [NoOp EXCEPT !.op = "setState", !.state = updatedState,
                                          !.prev = writable, !.isMerge = TRUE]
                /\ IF DOMAIN diff # {}
                   THEN writableDidPartiallyUpdate(diff)
                   ELSE writableDidNotUpdate

\* a call of forceFullSync(), the debounced wrapper: it looks at no state of
\* the channel
forceFullSyncCalled ==
    /\ UNCHANGED instanceVars
    /\ UNCHANGED orphanedTimeouts
    /\ calls < MaxCalls
    /\ calls' = calls + 1
    /\ forceFullSyncDebounced("null")
    /\ lastOp' = [NoOp EXCEPT !.op = "forceFullSync"]
    /\ sincePartial' = -1
    /\ idleSinceMatch' = FALSE
    /\ emittedA' = << >>
    /\ emittedB' = << >>
    /\ UNCHANGED << readOnlyVars, writable, writableKeys, writeSyncVerificationTimeout,
                    verifyTimeout, verifyArgs, verifyResult >>

\* the application calls forceFullSync()
ForceFullSync ==
    /\ channel = "constructed"
    /\ forceFullSyncCalled

\* the application calls forceFullSync() on a channel it has destroyed
ForceFullSyncAfterDestroy ==
    /\ channel = "destroyed"
    /\ forceFullSyncCalled

\* a forceFullSync that emits the full-sync and sets no deadline
ForceFullSyncRunsUnarmed ==
    /\ TimersRun
    /\ UNCHANGED instanceVars
    /\ UNCHANGED orphanedTimeouts
    /\ forceFullSyncTimeout = 0
    /\ forceFullSyncTimeout' = NoTimer
    /\ forceFullSyncArgs' = "none"
    /\ sendFullWriteEvent
    /\ writeSyncVerificationTimeout' = NoTimer
    /\ lastOp' = [NoOp EXCEPT !.op = "forceFullSyncRuns", !.n = triggers,
                              !.waited = sinceTrigger, !.age = sincePartial,
                              !.reason = forceFullSyncArgs]
    /\ triggers' = 0
    /\ matchedWhilePending' = FALSE
    /\ sinceTrigger' = 0
    /\ sincePartial' = -1
    /\ emittedB' = << >>
    /\ UNCHANGED << readOnlyVars, writable, writableKeys, verifyTimeout, verifyArgs,
                    verifyResult, idleSinceMatch, calls >>

\* the forceFullSync debounce runs forceFullSync(reason)
ForceFullSyncRuns ==
    /\ TimersRun
    /\ UNCHANGED instanceVars
    /\ UNCHANGED orphanedTimeouts
    /\ forceFullSyncTimeout = 0
    /\ forceFullSyncTimeout' = NoTimer
    /\ forceFullSyncArgs' = "none"
    /\ sendFullWriteEvent
    /\ writeSyncVerificationTimeout' = writeResyncThreshold
    /\ lastOp' = [NoOp EXCEPT !.op = "forceFullSyncRuns", !.n = triggers,
                              !.waited = sinceTrigger, !.age = sincePartial,
                              !.reason = forceFullSyncArgs]
    /\ triggers' = 0
    /\ matchedWhilePending' = FALSE
    /\ sinceTrigger' = 0
    /\ sincePartial' = -1
    /\ emittedB' = << >>
    /\ UNCHANGED << readOnlyVars, writable, writableKeys, verifyTimeout, verifyArgs, verifyResult,
                    idleSinceMatch, calls >>

\* the forceFullSync debounce runs forceFullSync(reason) and a listener of the
\* full-sync event throws: emit passes the error on, the statements after
\* _sendFullWriteEvent() are not reached; the event has reached the listeners
\* registered before the throwing one (the transport among them, or not)
ForceFullSyncRunsListenerThrows(delivered) ==
    /\ TimersRun
    /\ UNCHANGED instanceVars
    /\ UNCHANGED orphanedTimeouts
    /\ forceFullSyncTimeout = 0
    /\ forceFullSyncTimeout' = NoTimer
    /\ forceFullSyncArgs' = "none"
    /\ emittedA' = IF delivered THEN << FullSync(writable) >> ELSE << >>
    /\ writeSyncVerificationTimeout' = NoTimer
    /\ lastOp' = [NoOp EXCEPT !.op = "forceFullSyncRuns", !.n = triggers,
                              !.waited = sinceTrigger, !.age = sincePartial,
                              !.reason = forceFullSyncArgs, !.ret = "Error"]
    /\ triggers' = 0
    /\ matchedWhilePending' = FALSE
    /\ sinceTrigger' = 0
    /\ sincePartial' = -1
    /\ emittedB' = << >>
    /\ UNCHANGED << readOnlyVars, writable, writableKeys, verifyTimeout, verifyArgs,
                    verifyResult, idleSinceMatch, calls >>

\* the payload of the change notification of setState(updatedState, isMerge)
\* on a store that holds state
notifiedState(state, updatedState, isMerge) ==
    IF isMerge THEN diffedUpdatedState(state, updatedState) ELSE updatedState

\* setState(updatedState, isMerge) on a store that holds state returns and
\* emits EVT_UPDATED
setStateNotifies(state, updatedState, isMerge) ==
    /\ ~setStateThrows(state, updatedState, isMerge)
    /\ ~isMerge \/ DOMAIN diffedUpdatedState(state, updatedState) # {}

\* the events the transport's listener has seen when a listener of the
\* application has called setState during an emission: the transport's
\* listener was registered before that listener, or after it
seenByTransport(outer, nested, transportFirst) ==
    IF transportFirst THEN outer \o nested ELSE nested \o outer

\* this._writeSyncVerificationTimeout = setTimeout(...) while the field holds
\* the id of a timer that a nested call has set in the meantime: the id is
\* overwritten, the timer stays pending
timeoutOrphaned(timeouts, timeout) == timeouts \cup {timeout}

\* the application calls setState(updatedState, isMerge) on A's writable
\* store, and a listener of the partial-sync event calls
\* setState(nestedState, nestedIsMerge) on the store during the emission.
\* _writableDidPartiallyUpdate has cleared the deadline and is inside
\* _sendUpdateWriteEvent; the nested call runs the whole listener once more,
\* which sets a timer; the outer call then sets its own.  An error of the
\* nested call passes through emit and ends the outer call before its
\* setTimeout.  (A listener that calls the debounced forceFullSync or
\* verifyReadOnlySyncUpdateHash only restarts a debounce: the call is the
\* action ForceFullSync or VerifyReadOnlySyncUpdateHash taken next.)
SetStateInListener(updatedState, isMerge, nestedState, nestedIsMerge, transportFirst) ==
    /\ channel = "constructed"
    /\ UNCHANGED instanceVars
    /\ calls + 2 <= MaxCalls
    /\ calls' = calls + 2
    /\ setStateNotifies(writable, updatedState, isMerge)
    /\ emittedB' = << >>
    /\ UNCHANGED << readOnlyVars, forceFullSyncTimeout, forceFullSyncArgs,
                    verifyTimeout, verifyArgs, verifyResult, triggers, sinceTrigger,
                    matchedWhilePending >>
    /\ LET state == setStateResult(writable, updatedState, isMerge)
           keys == setStateKeys(writableKeys, writable, updatedState, isMerge)
           outer == << PartialSync(notifiedState(writable, updatedState, isMerge)) >>
           nested == << PartialSync(notifiedState(state, nestedState, nestedIsMerge)) >>
       IN  /\ writable' = setStateResult(state, nestedState, nestedIsMerge)
           /\ writableKeys' = setStateKeys(keys, state, nestedState, nestedIsMerge)
           /\ lastOp' = [NoOp EXCEPT !.op = "setStateInListener", !.state = nestedState,
                                     !.prev = state, !.isMerge = nestedIsMerge,
                                     !.ret = IF setStateThrows(state, nestedState,
                                                               nestedIsMerge)
                                             THEN "TypeError" ELSE "void"]
           /\ IF setStateThrows(state, nestedState, nestedIsMerge)
              THEN /\ emittedA' = seenByTransport(outer, << >>, transportFirst)
                   /\ writeSyncVerificationTimeout' = NoTimer
                   /\ UNCHANGED orphanedTimeouts
              ELSE IF setStateNotifies(state, nestedState, nestedIsMerge)
              THEN /\ emittedA' = seenByTransport(outer, nested, transportFirst)
                   /\ writeSyncVerificationTimeout' = writeResyncThreshold
                   /\ orphanedTimeouts' =
                          timeoutOrphaned(orphanedTimeouts, writeResyncThreshold)
              ELSE /\ emittedA' = outer
                   /\ writeSyncVerificationTimeout' = writeResyncThreshold
                   /\ UNCHANGED orphanedTimeouts
    /\ sincePartial' = 0
    /\ idleSinceMatch' = FALSE

\* the forceFullSync debounce runs forceFullSync(reason), and a listener of
\* the full-sync event calls setState(nestedState, nestedIsMerge) on the
\* writable store during the emission: forceFullSync has cleared the
\* deadline, the nested _writableDidPartiallyUpdate sets a timer, and
\* forceFullSync then sets its own
ForceFullSyncRunsInListener(nestedState, nestedIsMerge, transportFirst) ==
    /\ channel = "constructed"
    /\ UNCHANGED instanceVars
    /\ calls < MaxCalls
    /\ calls' = calls + 1
    /\ forceFullSyncTimeout = 0
    /\ forceFullSyncTimeout' = NoTimer
    /\ forceFullSyncArgs' = "none"
    /\ writable' = setStateResult(writable, nestedState, nestedIsMerge)
    /\ writableKeys' = setStateKeys(writableKeys, writable, nestedState, nestedIsMerge)
    /\ lastOp' = [NoOp EXCEPT !.op = "forceFullSyncRuns", !.n = triggers,
                              !.waited = sinceTrigger, !.age = sincePartial,
                              !.reason = forceFullSyncArgs,
                              !.state = nestedState, !.prev = writable,
                              !.isMerge = nestedIsMerge,
                              !.ret = IF setStateThrows(writable, nestedState,
                                                        nestedIsMerge)
                                      THEN "TypeError" ELSE "void"]
    /\ LET outer == << FullSync(writable) >>
           nested == << PartialSync(notifiedState(writable, nestedState,
                                                  nestedIsMerge)) >>
       IN  IF setStateThrows(writable, nestedState, nestedIsMerge)
           THEN /\ emittedA' = seenByTransport(outer, << >>, transportFirst)
                /\ writeSyncVerificationTimeout' = NoTimer
                /\ sincePartial' = -1
                /\ UNCHANGED orphanedTimeouts
           ELSE IF setStateNotifies(writable, nestedState, nestedIsMerge)
           THEN /\ emittedA' = seenByTransport(outer, nested, transportFirst)
                /\ writeSyncVerificationTimeout' = writeResyncThreshold
                /\ sincePartial' = 0
                /\ orphanedTimeouts' =
                       timeoutOrphaned(orphanedTimeouts, writeResyncThreshold)
           ELSE /\ emittedA' = outer
                /\ writeSyncVerificationTimeout' = writeResyncThreshold
                /\ sincePartial' = -1
                /\ UNCHANGED orphanedTimeouts
    /\ triggers' = 0
    /\ matchedWhilePending' = FALSE
    /\ sinceTrigger' = 0
    /\ idleSinceMatch' = FALSE
    /\ emittedB' = << >>
    /\ UNCHANGED << readOnlyVars, verifyTimeout, verifyArgs, verifyResult >>

\* a deadline timer whose id the field no longer holds fires: its callback
\* calls forceFullSync as that of any deadline timer
OrphanedTimeoutFires ==
    /\ TimersRun
    /\ UNCHANGED instanceVars
    /\ 0 \in orphanedTimeouts
    /\ orphanedTimeouts' = orphanedTimeouts \ {0}
    /\ forceFullSyncDebounced("timeout")
    /\ lastOp' = NoOp
    /\ idleSinceMatch' = FALSE
    /\ emittedA' = << >>
    /\ emittedB' = << >>
    /\ UNCHANGED << readOnlyVars, writable, writableKeys, writeSyncVerificationTimeout,
                    verifyTimeout, verifyArgs, verifyResult, sincePartial, calls >>

\* a deadline whose expiry requests no full-sync
WriteSyncVerificationTimeoutLapses ==
    /\ TimersRun
    /\ UNCHANGED instanceVars
    /\ UNCHANGED orphanedTimeouts
    /\ writeSyncVerificationTimeout = 0
    /\ writeSyncVerificationTimeout' = NoTimer
    /\ lastOp' = NoOp
    /\ idleSinceMatch' = FALSE
    /\ emittedA' = << >>
    /\ emittedB' = << >>
    /\ UNCHANGED << readOnlyVars, writable, writableKeys, verifyTimeout, verifyArgs, verifyResult,
                    forceFullSyncTimeout, forceFullSyncArgs, triggers, sinceTrigger,
                    matchedWhilePending, sincePartial, calls >>

\* the deadline timer set by _writableDidPartiallyUpdate or forceFullSync fires
WriteSyncVerificationTimeoutFires ==
    /\ TimersRun
    /\ UNCHANGED instanceVars
    /\ UNCHANGED orphanedTimeouts
    /\ writeSyncVerificationTimeout = 0
    /\ writeSyncVerificationTimeout' = NoTimer
    /\ forceFullSyncDebounced("timeout")
    /\ lastOp' = NoOp
    /\ idleSinceMatch' = FALSE
    /\ emittedA' = << >>
    /\ emittedB' = << >>
    /\ UNCHANGED << readOnlyVars, writable, writableKeys, verifyTimeout, verifyArgs, verifyResult,
                    sincePartial, calls >>

\* a comparison that accepts every fingerprint
hashAccepted(readOnlySyncUpdateHash) == TRUE

\* the comparison of verifyReadOnlySyncUpdateHash
hashVerified(readOnlySyncUpdateHash) == getHash(writable) = readOnlySyncUpdateHash

\* what a call of the debounced verifyReadOnlySyncUpdateHash returns: the
\* result of the latest run of the wrapped method
debouncedReturn(result, readOnlySyncUpdateHash) == result

\* a call of verifyReadOnlySyncUpdateHash(hash), the debounced wrapper: it
\* looks at no state of the channel
verifyReadOnlySyncUpdateHashCalled(readOnlySyncUpdateHash) ==
    /\ UNCHANGED instanceVars
    /\ UNCHANGED orphanedTimeouts
    /\ verifyArgs' = readOnlySyncUpdateHash
    /\ verifyTimeout' = verifyDebounceWait
    /\ lastOp' = [NoOp EXCEPT !.op = "verify", !.hash = readOnlySyncUpdateHash,
                              !.ret = debouncedReturn(verifyResult,
                                                      readOnlySyncUpdateHash)]
    /\ emittedA' = << >>
    /\ emittedB' = << >>
    /\ UNCHANGED << readOnlyVars, writable, writableKeys, writeSyncVerificationTimeout,
                    forceFullSyncTimeout, forceFullSyncArgs, verifyResult,
                    triggers, matchedWhilePending, sinceTrigger, sincePartial,
                    idleSinceMatch, calls >>

\* a fingerprint announcement is handed to verifyReadOnlySyncUpdateHash
VerifyReadOnlySyncUpdateHash(readOnlySyncUpdateHash) ==
    /\ channel = "constructed"
    /\ verifyReadOnlySyncUpdateHashCalled(readOnlySyncUpdateHash)

\* verifyReadOnlySyncUpdateHash is called on a channel that has been destroyed
VerifyReadOnlySyncUpdateHashAfterDestroy(readOnlySyncUpdateHash) ==
    /\ channel = "destroyed"
    /\ verifyReadOnlySyncUpdateHashCalled(readOnlySyncUpdateHash)

\* the verify debounce runs verifyReadOnlySyncUpdateHash(readOnlySyncUpdateHash)
VerifyRuns ==
    /\ TimersRun
    /\ UNCHANGED instanceVars
    /\ UNCHANGED orphanedTimeouts
    /\ verifyTimeout = 0
    /\ verifyTimeout' = NoTimer
    /\ verifyArgs' = {}
    /\ lastOp' = [NoOp EXCEPT !.op = "verifyRuns", !.hash = verifyArgs]
    /\ sincePartial' = -1
    /\ emittedA' = << >>
    /\ emittedB' = << >>
    /\ UNCHANGED << readOnlyVars, writable, writableKeys, calls >>
    /\ IF hashVerified(verifyArgs)
       THEN /\ writeSyncVerificationTimeout' = NoTimer
            /\ verifyResult' = "true"
            /\ idleSinceMatch' =
                   (idleSinceMatch \/ writeSyncVerificationTimeout # NoTimer)
            /\ matchedWhilePending' = (forceFullSyncTimeout # NoTimer)
            /\ UNCHANGED << forceFullSyncTimeout, forceFullSyncArgs, triggers,
                            sinceTrigger >>
       ELSE /\ forceFullSyncDebounced("mismatch")
            /\ verifyResult' = "false"
            /\ idleSinceMatch' = FALSE
            /\ UNCHANGED writeSyncVerificationTimeout

(***************************************************************************)
(* Peer B, inbound half.                                                   *)
(***************************************************************************)
\* an announcement of the fingerprint the store had before the state was applied
sendStaleReadOnlyHash(state) ==
    /\ emittedB' = << getHash(readOnly) >>
    /\ readOnlySyncHashVerifierTimeout' = writeResyncThreshold

\* an announcement that leaves a pending timer as it is
sendReadOnlyHashOnce(state) ==
    /\ emittedB' = << getHash(state) >>
    /\ readOnlySyncHashVerifierTimeout' =
           IF readOnlySyncHashVerifierTimeout = NoTimer THEN writeResyncThreshold
           ELSE readOnlySyncHashVerifierTimeout

\* _sendReadOnlyHash
sendReadOnlyHash(state) ==
    /\ emittedB' = << getHash(state) >>
    /\ readOnlySyncHashVerifierTimeout' = writeResyncThreshold

\* receiveReadOnlyState(state, isMerge)
ReceiveReadOnlyState(state, isMerge) ==
    /\ channel = "constructed"
    /\ UNCHANGED instanceVars
    /\ lastOp' = [NoOp EXCEPT !.op = "receive", !.state = state, !.prev = readOnly,
                              !.isMerge = isMerge,
                              !.ret = IF setStateThrows(readOnly, state, isMerge)
                                      THEN "TypeError" ELSE "void"]
    /\ readOnly' = setStateResult(readOnly, state, isMerge)
    /\ readOnlyKeys' = setStateKeys(readOnlyKeys, readOnly, state, isMerge)
    /\ IF ~setStateThrows(readOnly, state, isMerge)
       THEN /\ sendReadOnlyHash(readOnly')
            /\ sinceReceive' = 0
       ELSE /\ emittedB' = << >>
            /\ UNCHANGED << readOnlySyncHashVerifierTimeout, sinceReceive >>
    /\ emittedA' = << >>
    /\ UNCHANGED writableVars

\* the timer of the post-update verification hash fires
ReadOnlySyncHashVerifierTimeoutFires ==
    /\ TimersRun
    /\ UNCHANGED instanceVars
    /\ readOnlySyncHashVerifierTimeout = 0
    /\ readOnlySyncHashVerifierTimeout' = NoTimer
    /\ emittedB' = << getHash(readOnly) >>
    /\ sinceReceive' = -1
    /\ lastOp' = NoOp
    /\ emittedA' = << >>
    /\ UNCHANGED << readOnly, readOnlyKeys, writableVars >>

(***************************************************************************)
(* Time.                                                                   *)
(***************************************************************************)
Elapse(t) == IF t = NoTimer THEN NoTimer ELSE t - 1

\* one time unit passes; a timer that is due runs first
Tick ==
    /\ TimersRun
    /\ UNCHANGED instanceVars
    /\ \A t \in { writeSyncVerificationTimeout, forceFullSyncTimeout, verifyTimeout,
                  readOnlySyncHashVerifierTimeout } \cup orphanedTimeouts : t # 0
    /\ writeSyncVerificationTimeout' = Elapse(writeSyncVerificationTimeout)
    /\ orphanedTimeouts' = { Elapse(t) : t \in orphanedTimeouts }
    /\ forceFullSyncTimeout' = Elapse(forceFullSyncTimeout)
    /\ verifyTimeout' = Elapse(verifyTimeout)
    /\ readOnlySyncHashVerifierTimeout' = Elapse(readOnlySyncHashVerifierTimeout)
    /\ sinceTrigger' = IF forceFullSyncTimeout = NoTimer THEN sinceTrigger
                       ELSE Cap(sinceTrigger + 1, fullStateDebounceTimeout + 1)
    /\ sincePartial' = IF sincePartial = -1 THEN -1
                       ELSE Cap(sincePartial + 1,
                                writeResyncThreshold + fullStateDebounceTimeout + 1)
    /\ sinceReceive' = IF sinceReceive = -1 THEN -1
                       ELSE Cap(sinceReceive + 1, writeResyncThreshold + 1)
    /\ lastOp' = NoOp
    /\ emittedA' = << >>
    /\ emittedB' = << >>
    /\ UNCHANGED << writable, writableKeys, readOnly, readOnlyKeys, forceFullSyncArgs, verifyArgs, verifyResult,
                    triggers, matchedWhilePending, idleSinceMatch, calls >>

(***************************************************************************)
(* The transport.                                                          *)
(***************************************************************************)
\* the transport takes the events emitted in this step
TransportQueues(pendingToB, pendingToA) ==
    /\ toB' = pendingToB \o emittedA'
    /\ toA' = pendingToA \o emittedB'
    /\ Len(toB') <= MaxInFlight
    /\ Len(toA') <= MaxInFlight

\* a step of peer A's application, of a timer, or of time
Local ==
    /\ \/ \E u \in Updates, isMerge \in BOOLEAN : SetState(u, isMerge)
       \/ ForceFullSync
       \/ ForceFullSyncRuns
       \/ WriteSyncVerificationTimeoutFires
       \/ VerifyRuns
       \/ ReadOnlySyncHashVerifierTimeoutFires
       \/ Tick
    /\ TransportQueues(toB, toA)

\* event i of A reaches B: a partial-sync payload is merged, a full-sync
\* payload replaces the state
DeliverToB(i) ==
    /\ i \in 1..Len(toB)
    /\ ReceiveReadOnlyState(toB[i].state, toB[i].type = "partial")
    /\ TransportQueues(Remove(toB, i), toA)

\* announcement i of B reaches A
DeliverToA(i) ==
    /\ i \in 1..Len(toA)
    /\ VerifyReadOnlySyncUpdateHash(toA[i])
    /\ TransportQueues(toB, Remove(toA, i))

\* the transport loses an event of A
DropToB(i) ==
    /\ channel = "constructed"
    /\ UNCHANGED instanceVars
    /\ i \in 1..Len(toB)
    /\ toB' = Remove(toB, i)
    /\ lastOp' = NoOp
    /\ emittedA' = << >>
    /\ emittedB' = << >>
    /\ UNCHANGED << writableVars, readOnlyVars, toA >>

\* the transport loses an announcement of B
DropToA(i) ==
    /\ channel = "constructed"
    /\ UNCHANGED instanceVars
    /\ i \in 1..Len(toA)
    /\ toA' = Remove(toA, i)
    /\ lastOp' = NoOp
    /\ emittedA' = << >>
    /\ emittedB' = << >>
    /\ UNCHANGED << writableVars, readOnlyVars, toB >>

\* two peers over a transport that may delay, reorder and lose events
Next ==
    \/ Local
    \/ \E i \in 1..MaxInFlight : DeliverToB(i)
    \/ \E i \in 1..MaxInFlight : DeliverToA(i)
    \/ \E i \in 1..MaxInFlight : DropToB(i)
    \/ \E i \in 1..MaxInFlight : DropToA(i)

Spec == Init /\ [][Next]_vars

\* two peers over a transport that delays events but delivers all, in order
NextInOrder ==
    \/ Local
    \/ DeliverToB(1)
    \/ DeliverToA(1)

SpecInOrder == Init /\ [][NextInOrder]_vars

\* the same, with time passing, due timers running and the transport
\* delivering: while a step is possible one is taken
SpecInOrderFair == SpecInOrder /\ WF_vars(NextInOrder)

\* peer A's outbound half alone: the environment announces any fingerprint
\* at any time and takes the emitted events away
NextWritable ==
    /\ \/ \E u \in Updates, isMerge \in BOOLEAN : SetState(u, isMerge)
       \/ ForceFullSync
       \/ ForceFullSyncRuns
       \/ WriteSyncVerificationTimeoutFires
       \/ VerifyRuns
       \/ \E h \in Hashes : VerifyReadOnlySyncUpdateHash(h)
       \/ Tick
    /\ UNCHANGED netVars

SpecWritable == Init /\ [][NextWritable]_vars

\* peer B's inbound half alone: the environment passes any state at any time
\* and takes the announcements away
NextReadOnly ==
    /\ \/ \E s \in Updates, isMerge \in BOOLEAN : ReceiveReadOnlyState(s, isMerge)
       \/ ReadOnlySyncHashVerifierTimeoutFires
       \/ Tick
    /\ UNCHANGED netVars

SpecReadOnly == Init /\ [][NextReadOnly]_vars

\* peer A's outbound half until its application destroys the channel, and the
\* timers that are left
NextTeardown ==
    \/ NextWritable
    \/ Destroy /\ UNCHANGED netVars

SpecTeardown == Init /\ [][NextTeardown]_vars

\* peer A's outbound half, its teardown, and calls of the two debounced
\* methods on the destroyed channel
NextAfterDestroy ==
    \/ NextTeardown
    \/ ForceFullSyncAfterDestroy /\ UNCHANGED netVars
    \/ \E h \in Hashes : VerifyReadOnlySyncUpdateHashAfterDestroy(h) /\ UNCHANGED netVars

SpecAfterDestroy == Init /\ [][NextAfterDestroy]_vars

\* peer B's application constructs the channel, then its inbound half runs
InitNew ==
    /\ writable = EmptyState
    /\ readOnly = EmptyState
    /\ writableKeys = << >>
    /\ readOnlyKeys = << >>
    /\ channel = "none"
    /\ syncObjects = NoSyncObjects
    /\ options = DEFAULT_OPTIONS
    /\ Idle

NextNew ==
    \/ \E w \in {0} \cup Supplied, r \in {0} \cup Supplied :
           Construct(w, r) /\ UNCHANGED netVars
    \/ NextReadOnly
    \/ Destroy /\ UNCHANGED netVars

SpecNew == InitNew /\ [][NextNew]_vars

\* a store alone: it is created from any initial state and then set, merging
\* or replacing, with any update
NextStore ==
    /\ \/ \E initialState \in StoreStates : NewSyncObject(initialState)
       \/ \E u \in StoreUpdates, isMerge \in BOOLEAN : SetState(u, isMerge)
    /\ UNCHANGED netVars

SpecStore == InitNew /\ [][NextStore]_vars

\* two stores, the writable store of peer A and the read-only store of peer
\* B, each set with any updates in any order
NextHash ==
    /\ \/ \E u \in HashUpdates, isMerge \in BOOLEAN : SetState(u, isMerge)
       \/ \E u \in HashUpdates, isMerge \in BOOLEAN : ReceiveReadOnlyState(u, isMerge)
    /\ UNCHANGED netVars

SpecHash == Init /\ [][NextHash]_vars

\* a replica that follows a source: the two stores start equal, the source
\* is set by merges, and every change notification, passed on as a
\* partial-sync, is merged into the replica in the order of emission; the
\* replica's announcements are not used
InitReplay ==
    /\ writable \in { state \in StoreStates : validateState(state) }
    /\ readOnly = writable
    /\ writableKeys = objectKeys(writable)
    /\ readOnlyKeys = writableKeys
    /\ channel = "constructed"
    /\ syncObjects = [writable |-> 1, readOnly |-> 2]
    /\ options = mergeOptions(DEFAULT_OPTIONS, AppOptions)
    /\ Idle

NextReplay ==
    \/ (\E u \in ReplayUpdates : SetState(u, TRUE)) /\ TransportQueues(toB, toA)
    \/ DeliverToB(1)
    \/ DropToA(1)

SpecReplay == InitReplay /\ [][NextReplay]_vars

\* peer A's outbound half with listeners of the application on its events:
\* a listener of the full-sync event may throw
NextListeners ==
    \/ NextWritable
    \/ \E delivered \in BOOLEAN :
           ForceFullSyncRunsListenerThrows(delivered) /\ UNCHANGED netVars

SpecListeners == Init /\ [][NextListeners]_vars

\* peer A's outbound half with listeners of the application that set the
\* writable store during the emission of a partial-sync or full-sync event;
\* the peer announces the fingerprint the writable store has at that time
NextReentrant ==
    /\ \/ \E u \in Updates, isMerge \in BOOLEAN : SetState(u, isMerge)
       \/ \E u \in Updates, isMerge \in BOOLEAN, nested \in Updates,
             nestedIsMerge \in BOOLEAN, transportFirst \in BOOLEAN :
              SetStateInListener(u, isMerge, nested, nestedIsMerge, transportFirst)
       \/ ForceFullSync
       \/ ForceFullSyncRuns
       \/ \E nested \in Updates, nestedIsMerge \in BOOLEAN,
             transportFirst \in BOOLEAN :
              ForceFullSyncRunsInListener(nested, nestedIsMerge, transportFirst)
       \/ WriteSyncVerificationTimeoutFires
       \/ OrphanedTimeoutFires
       \/ VerifyRuns
       \/ VerifyReadOnlySyncUpdateHash(getHash(writable))
       \/ Tick
    /\ UNCHANGED netVars

SpecReentrant == Init /\ [][NextReentrant]_vars

\* the application of peer A holds a store with any contents and constructs
\* a channel over it, passing any of the options objects; then the outbound
\* half of the channel runs, the peer announcing the fingerprint the
\* writable store has at that time
InitConstruct ==
    /\ writable \in InitStates
    /\ readOnly = EmptyState
    /\ writableKeys = objectKeys(writable)
    /\ readOnlyKeys = << >>
    /\ channel = "none"
    /\ syncObjects = NoSyncObjects
    /\ options = DEFAULT_OPTIONS
    /\ Idle

NextConstruct ==
    \/ \E opts \in SuppliedOptions :
           ConstructWithOptions(1, 0, opts) /\ UNCHANGED netVars
    \/ /\ \/ \E u \in Updates, isMerge \in BOOLEAN : SetState(u, isMerge)
          \/ ForceFullSync
          \/ ForceFullSyncRuns
          \/ WriteSyncVerificationTimeoutFires
          \/ VerifyRuns
          \/ VerifyReadOnlySyncUpdateHash(getHash(writable))
          \/ Tick
       /\ UNCHANGED netVars

SpecConstruct == InitConstruct /\ [][NextConstruct]_vars

(***************************************************************************)
(* Properties.                                                             *)
(***************************************************************************)
\* no event is in flight and no timer or debounce is pending on either peer
Quiescent ==
    /\ toB = << >>
    /\ toA = << >>
    /\ writeSyncVerificationTimeout = NoTimer
    /\ forceFullSyncTimeout = NoTimer
    /\ verifyTimeout = NoTimer
    /\ readOnlySyncHashVerifierTimeout = NoTimer

EmittedFullSync == \E k \in 1..Len(emittedA) : emittedA[k].type = "full"

\* C1: over a transport that delivers every event in order after any delay,
\* once a round trip has completed (A has verified an announcement of B and
\* nothing is in flight or pending any more), B's read-only state and
\* fingerprint equal A's writable state and fingerprint, and the last
\* verification matched.
C1_RoundTripConverges ==
    (Quiescent /\ verifyResult # "undefined") =>
        /\ readOnly = writable
        /\ getHash(readOnly) = getHash(writable)
        /\ verifyResult = "true"

\* a completed round trip that needed a full-sync or started from a
\* non-empty mirror: both stores hold the empty state again
C1_Witness ==
    /\ Quiescent
    /\ verifyResult = "true"
    /\ calls = MaxCalls
    /\ writable = EmptyState
    /\ readOnly = EmptyState

\* C2: over a transport that may lose or reorder events there is no state in
\* which, after A has verified an announcement, the stores differ while no
\* timer is pending and no event is in flight.
C2_NoSilentDivergence ==
    (Quiescent /\ verifyResult = "true") => readOnly = writable

\* C3: a merge setState on the writable store that yields a non-empty diff
\* makes the channel emit exactly one partial-sync whose payload is that diff
\* and leaves the deadline timer armed for writeResyncThreshold.
C3_PartialSyncOnDiff ==
    (/\ lastOp.op = "setState"
     /\ lastOp.isMerge
     /\ lastOp.ret = "void"
     /\ DOMAIN diffedUpdatedState(lastOp.prev, lastOp.state) # {}) =>
        /\ emittedA = << PartialSync(diffedUpdatedState(lastOp.prev, lastOp.state)) >>
        /\ writeSyncVerificationTimeout = writeResyncThreshold

\* a merge changed the value of a key the store already held
C3_Witness ==
    /\ lastOp.op = "setState"
    /\ lastOp.isMerge
    /\ lastOp.prev = [p \in {<<"a">>} |-> "2"]
    /\ emittedA = << PartialSync([p \in {<<"a">>} |-> "1"]) >>
    /\ writeSyncVerificationTimeout = writeResyncThreshold

\* C4: after a verification that matched while the deadline was armed, no
\* timeout-driven full-sync is emitted unless the writable store changes (or
\* another trigger occurs) first.
C4_NoTimeoutSyncAfterMatch ==
    (lastOp.op = "forceFullSyncRuns" /\ lastOp.reason = "timeout") => ~idleSinceMatch

\* C5: once a mismatch has been found, a later call of
\* verifyReadOnlySyncUpdateHash with the correct fingerprint returns true.
C5_CorrectHashReturnsTrue ==
    (/\ lastOp.op = "verify"
     /\ verifyResult = "false"
     /\ lastOp.hash = getHash(writable)) => lastOp.ret = "true"

\* C6: when a partial-sync has been emitted and since then the writable store
\* has not changed, no verification has run and the application has forced no
\* resync, the channel emits a full-sync of its own by the time
\* writeResyncThreshold and the full-sync debounce have elapsed.
C6_TimeoutRecovery ==
    /\ sincePartial <= writeResyncThreshold + fullStateDebounceTimeout
    /\ (sincePartial = writeResyncThreshold + fullStateDebounceTimeout) =>
           (forceFullSyncTimeout = 0 /\ forceFullSyncArgs = "timeout")
    /\ (lastOp.op = "forceFullSyncRuns") => emittedA = << FullSync(writable) >>

\* the deadline of a partial-sync expired and the full-sync went out
C6_Witness ==
    /\ lastOp.op = "forceFullSyncRuns"
    /\ lastOp.reason = "timeout"
    /\ lastOp.age = writeResyncThreshold + fullStateDebounceTimeout
    /\ emittedA = << FullSync(writable) >>

\* C7: forced-resync triggers that arrive within one fullStateDebounceTimeout
\* window produce exactly one full-sync, emitted fullStateDebounceTimeout
\* after the last of them; a full-sync is emitted in no other way.
C7_DebounceCoalescing ==
    /\ EmittedFullSync =>
           /\ lastOp.op = "forceFullSyncRuns"
           /\ Len(emittedA) = 1
           /\ lastOp.n >= 1
           /\ lastOp.waited = fullStateDebounceTimeout
    /\ (triggers > 0) <=> (forceFullSyncTimeout # NoTimer)
    /\ (triggers > 0) => sinceTrigger + forceFullSyncTimeout = fullStateDebounceTimeout

\* two or more triggers were coalesced into the full-sync just emitted
C7_Witness ==
    /\ lastOp.op = "forceFullSyncRuns"
    /\ lastOp.n >= 2
    /\ emittedA = << FullSync(writable) >>

\* C8: receiveReadOnlyState(state, isMerge) applies state to the read-only
\* store (merged, or replacing it when isMerge is false) and then emits
\* exactly one fingerprint announcement, of the store's state after that.
C8_ReceiveAnnounces ==
    (lastOp.op = "receive" /\ lastOp.ret = "void") =>
        /\ IF lastOp.isMerge
           THEN /\ \A p \in DOMAIN lastOp.state :
                       p \in DOMAIN readOnly /\ readOnly[p] = lastOp.state[p]
                /\ \A p \in DOMAIN lastOp.prev \ DOMAIN lastOp.state :
                       p \in DOMAIN readOnly /\ readOnly[p] = lastOp.prev[p]
                /\ DOMAIN readOnly \subseteq DOMAIN lastOp.prev \cup DOMAIN lastOp.state
           ELSE readOnly = lastOp.state
        /\ emittedB = << getHash(readOnly) >>

\* a replacing receive changed the mirror and announced the new fingerprint
C8_Witness ==
    /\ lastOp.op = "receive"
    /\ ~lastOp.isMerge
    /\ lastOp.prev # lastOp.state
    /\ readOnly = lastOp.state
    /\ emittedB = << getHash(lastOp.state) >>

\* C9: every call verifyReadOnlySyncUpdateHash(h) returns true exactly when h
\* equals the writable store's fingerprint at the time of the call, and false
\* otherwise.
C9_ReturnsMatch ==
    (lastOp.op = "verify") =>
        lastOp.ret = (IF lastOp.hash = getHash(writable) THEN "true" ELSE "false")

\* C10: a channel never holds one instance as writable and as read-only
\* store: constructing it with one store in both roles throws and creates no
\* channel, and the stores a channel creates are distinct instances.
C10_DistinctInstances ==
    /\ (lastOp.op = "new" /\ lastOp.w # 0 /\ lastOp.w = lastOp.r) =>
           (channel = "threw" /\ syncObjects = NoSyncObjects)
    /\ (channel = "constructed") =>
           /\ syncObjects.writable # 0
           /\ syncObjects.readOnly # 0
           /\ syncObjects.writable # syncObjects.readOnly

\* the constructor was given one store for both roles and threw
C10_Witness ==
    /\ lastOp.op = "new"
    /\ lastOp.w = 1
    /\ lastOp.r = 1
    /\ channel = "threw"

\* the stores the channel holds that _makeSyncObject created
CreatedSyncObjects == { syncObjects.writable, syncObjects.readOnly } \ (Supplied \cup {0})

\* C11: a store the channel created itself is not destroyed while the channel
\* lives and is destroyed once the channel's destroy has completed; a store
\* the caller supplied is never destroyed by the channel.
C11_StoreOwnership ==
    /\ (channel = "constructed") => destroyedSyncObjects = {}
    /\ (channel = "destroyed") => destroyedSyncObjects = CreatedSyncObjects
    /\ destroyedSyncObjects \cap Supplied = {}

\* a destroyed channel that was given its writable store and created its
\* read-only store: only the created one is destroyed
C11_Witness ==
    /\ channel = "destroyed"
    /\ syncObjects.writable \in Supplied
    /\ syncObjects.readOnly \notin Supplied
    /\ destroyedSyncObjects = { syncObjects.readOnly }

HasForbiddenValue(state) ==
    \E p \in DOMAIN state : state[p] \in {"array", "function", "cyclic"}

\* the state is a mapping of mappings and JSON values only
IsPlainState(state) ==
    /\ IsMappingAtRoot(state)
    /\ \A p \in DOMAIN state :
           state[p] \notin {"array", "function", "cyclic", "instance"}

\* the state holds an array
HasArray(state) == \E p \in DOMAIN state : state[p] \in {"array", "[]"}

\* the payload of the change notification of the last step, as the channel
\* passed it on; the empty state when there was none
Notified == IF emittedA = << >> THEN EmptyState ELSE emittedA[1].state

\* C13: construction and setState (merge and replace) fail for every state
\* that holds an array, a function or a cyclic reference at any depth, and
\* succeed for every plain, JSON-serializable state without them.
C13_ShapeValidation ==
    (lastOp.op \in {"newSyncObject", "setState"}) =>
        /\ HasForbiddenValue(lastOp.state) => lastOp.ret = "TypeError"
        /\ IsPlainState(lastOp.state) => lastOp.ret = "void"

\* C14: construction and setState reject a state that is, or holds at any
\* depth, a constructed class instance.
C14_RejectsClassInstances ==
    (/\ lastOp.op \in {"newSyncObject", "setState"}
     /\ \E p \in DOMAIN lastOp.state : lastOp.state[p] = "instance") =>
        lastOp.ret = "TypeError"

\* C15: a setState whose update fails the shape validation leaves the state
\* and the fingerprint as they were and emits no change notification.
C15_FailedSetStateChangesNothing ==
    (/\ lastOp.op = "setState"
     /\ (~IsMappingAtRoot(lastOp.state) \/ HasForbiddenValue(lastOp.state))) =>
        /\ lastOp.ret = "TypeError"
        /\ writable = lastOp.prev
        /\ getHash(writable) = getHash(lastOp.prev)
        /\ emittedA = << >>

\* a merge with an array beneath a key the store holds was rejected
C15_Witness ==
    /\ lastOp.op = "setState"
    /\ lastOp.isMerge
    /\ lastOp.state = (<<"a", "z">> :> "array")
    /\ lastOp.ret = "TypeError"
    /\ writable = (<<"a", "b">> :> "1")

\* C16: the state of a constructed store is a mapping at its root and holds
\* no array and no function, whatever merges and replacements made it.
C16_ShapeInvariant ==
    (channel = "constructed") =>
        /\ IsMappingAtRoot(writable)
        /\ ~HasArray(writable)
        /\ \A p \in DOMAIN writable : writable[p] # "function"

\* C17: after a merge every leaf the update writes holds the update's value,
\* a path the update sets to an empty mapping holds a mapping, and every path
\* of the prior state the update does not name keeps its value.
C17_MergeRetention ==
    (lastOp.op = "setState" /\ lastOp.isMerge /\ lastOp.ret = "void") =>
        /\ \A p \in DOMAIN lastOp.state :
               IF lastOp.state[p] = "{}"
               THEN IsObjectAt(writable, p)
               ELSE p \in DOMAIN writable /\ writable[p] = lastOp.state[p]
        /\ \A q \in DOMAIN lastOp.prev :
               (\A p \in DOMAIN lastOp.state :
                    /\ p # q
                    /\ ~IsProperPrefix(q, p)
                    /\ ~(IsProperPrefix(p, q) /\ lastOp.state[p] # "{}")) =>
                   (q \in DOMAIN writable /\ writable[q] = lastOp.prev[q])

\* C18: a merge that sets a path to null or to undefined writes it: the key
\* is in the state with that value and nothing is left beneath it, and when
\* the value changed the path is in the emitted diff with that value.
C18_NullAndUndefinedAreWritten ==
    (lastOp.op = "setState" /\ lastOp.isMerge /\ lastOp.ret = "void") =>
        \A p \in DOMAIN lastOp.state :
            (lastOp.state[p] \in {"null", "undefined"}) =>
                /\ p \in DOMAIN writable
                /\ writable[p] = lastOp.state[p]
                /\ \A q \in DOMAIN writable : ~IsProperPrefix(p, q)
                /\ ~(p \in DOMAIN lastOp.prev /\ lastOp.prev[p] = lastOp.state[p]) =>
                       (p \in DOMAIN Notified /\ Notified[p] = lastOp.state[p])

\* {a: {b: 1}} was merged with {a: undefined}: its subtree is gone and the
\* diff says so
C18_Witness ==
    /\ lastOp.op = "setState"
    /\ lastOp.isMerge
    /\ lastOp.prev = (<<"a", "b">> :> "1")
    /\ writable = (<<"a">> :> "undefined")
    /\ emittedA = << PartialSync(<<"a">> :> "undefined") >>

\* C19: setState(update, false) with a valid update succeeds, leaves a state
\* equal to the update, no key of the prior state surviving, and notifies
\* with the full new state.
C19_Replace ==
    (/\ lastOp.op = "setState"
     /\ ~lastOp.isMerge
     /\ IsMappingAtRoot(lastOp.state)
     /\ ~HasForbiddenValue(lastOp.state)) =>
        /\ lastOp.ret = "void"
        /\ writable = lastOp.state
        /\ emittedA = << PartialSync(lastOp.state) >>

\* {a: {b: 1}} was replaced by {}
C19_Witness ==
    /\ lastOp.op = "setState"
    /\ ~lastOp.isMerge
    /\ lastOp.prev = (<<"a", "b">> :> "1")
    /\ writable = EmptyState
    /\ emittedA = << PartialSync(EmptyState) >>

\* C20: the change notification of a merge holds exactly the paths of the
\* update that the prior state lacked or held with another value, each with
\* the update's value; with no such path there is no notification.
C20_DiffContent ==
    (lastOp.op = "setState" /\ lastOp.isMerge /\ lastOp.ret = "void") =>
        /\ DOMAIN Notified \subseteq DOMAIN lastOp.state
        /\ \A p \in DOMAIN lastOp.state :
               (p \in DOMAIN Notified) <=>
                   ~(p \in DOMAIN lastOp.prev /\ lastOp.prev[p] = lastOp.state[p])
        /\ \A p \in DOMAIN Notified : Notified[p] = lastOp.state[p]
        /\ (emittedA = << >>) <=> (DOMAIN Notified = {})

\* {a: {b: 1, 0: 2}} was merged with {a: {b: 2}}: the diff is {a: {b: 2}}
C20_Witness ==
    /\ lastOp.op = "setState"
    /\ lastOp.isMerge
    /\ lastOp.prev = ((<<"a", "b">> :> "1") @@ (<<"a", "0">> :> "2"))
    /\ writable = ((<<"a", "b">> :> "2") @@ (<<"a", "0">> :> "2"))
    /\ emittedA = << PartialSync(<<"a", "b">> :> "2") >>

\* C21: a merge setState whose update changes no value of the state emits no
\* change notification: the state stays as it was, the channel emits no
\* partial-sync and the deadline timer is left as it was.
C21_NoNotificationWithoutChange ==
    [][(/\ lastOp'.op = "setState"
        /\ lastOp'.isMerge
        /\ lastOp'.ret = "void"
        /\ \A p \in DOMAIN lastOp'.state :
               p \in DOMAIN writable /\ writable[p] = lastOp'.state[p]) =>
           /\ writable' = writable
           /\ emittedA' = << >>
           /\ writeSyncVerificationTimeout' = writeSyncVerificationTimeout]_vars

\* {a: {b: 1, 0: 2}} was merged with {a: {b: 1}}: nothing went out and no
\* deadline is armed
C21_Witness ==
    /\ lastOp.op = "setState"
    /\ lastOp.isMerge
    /\ lastOp.ret = "void"
    /\ lastOp.state = (<<"a", "b">> :> "1")
    /\ lastOp.prev = ((<<"a", "b">> :> "1") @@ (<<"a", "0">> :> "2"))
    /\ writable = lastOp.prev
    /\ emittedA = << >>
    /\ writeSyncVerificationTimeout = NoTimer

\* C22: a merge whose update writes a path beneath a segment that holds null
\* or a primitive, at any depth beneath it, returns without error; the
\* segment then is a mapping and the state holds every leaf of the update.
C22_LeafBecomesParent ==
    (/\ lastOp.op = "setState"
     /\ lastOp.isMerge
     /\ IsMappingAtRoot(lastOp.state)
     /\ ~HasForbiddenValue(lastOp.state)
     /\ \E p \in DOMAIN lastOp.state, q \in DOMAIN lastOp.prev :
            IsProperPrefix(q, p) /\ lastOp.prev[q] \in {"null", "1", "2"}) =>
        /\ lastOp.ret = "void"
        /\ \A p \in DOMAIN lastOp.state :
               /\ p \in DOMAIN writable
               /\ writable[p] = lastOp.state[p]
               /\ \A q \in DOMAIN lastOp.prev :
                      IsProperPrefix(q, p) => IsObjectAt(writable, q)

C24_RejectedReceive ==
    [][(/\ lastOp'.op = "receive"
        /\ (~IsMappingAtRoot(lastOp'.state) \/ HasForbiddenValue(lastOp'.state))) =>
           /\ lastOp'.ret = "TypeError"
           /\ readOnly' = readOnly
           /\ emittedB' = << >>
           /\ readOnlySyncHashVerifierTimeout' = readOnlySyncHashVerifierTimeout]_vars

\* a state with an array was received while the delayed announcement of an
\* earlier receive was pending: the store keeps {a: 1} and the timer runs on
C24_Witness ==
    /\ lastOp.op = "receive"
    /\ lastOp.state = (<<"a">> :> "array")
    /\ lastOp.ret = "TypeError"
    /\ readOnly = (<<"a">> :> "1")
    /\ emittedB = << >>
    /\ readOnlySyncHashVerifierTimeout \in 1..(writeResyncThreshold - 1)

\* C25: a replica that started equal to the source and has merged, in order,
\* every change notification the source emitted for its merges holds the
\* state of the source.
C25_DiffReplay ==
    (toB = << >>) => readOnly = writable

C27_DelayedAnnouncement ==
    /\ [](/\ sinceReceive <= writeResyncThreshold
          /\ (sinceReceive # -1) =>
                 readOnlySyncHashVerifierTimeout = writeResyncThreshold - sinceReceive
          /\ (sinceReceive = -1 /\ channel = "constructed") =>
                 readOnlySyncHashVerifierTimeout = NoTimer)
    /\ [][/\ (lastOp'.op = "receive" /\ lastOp'.ret = "void") => sinceReceive' = 0
          /\ (emittedB' # << >> /\ lastOp'.op # "receive") =>
                 /\ sinceReceive = writeResyncThreshold
                 /\ sinceReceive' = -1
                 /\ emittedB' = << getHash(readOnly) >>]_vars

\* writeResyncThreshold has passed since the latest receive, which left
\* {a: 1}: its delayed announcement is due
C27_Witness ==
    /\ sinceReceive = writeResyncThreshold
    /\ readOnlySyncHashVerifierTimeout = 0
    /\ readOnly = (<<"a">> :> "1")
    /\ emittedB = << >>

\* C28: forceFullSync and verifyReadOnlySyncUpdateHash called on a destroyed
\* channel do nothing: the channel emits no event and no timer of it is
\* pending, neither at the call nor after the debounce delay.
C28_NoOpAfterDestroy ==
    (channel = "destroyed") =>
        /\ emittedA = << >>
        /\ forceFullSyncTimeout = NoTimer
        /\ verifyTimeout = NoTimer
        /\ writeSyncVerificationTimeout = NoTimer

\* C29: once destroy() has been called the channel emits no fingerprint
\* announcement, whatever delayed announcement was pending at the call.
C29_NoAnnouncementAfterDestroy ==
    (channel = "destroyed") => emittedB = << >>

\* C30: whenever the deadline timer fires, no run of the debounced
\* verifyReadOnlySyncUpdateHash is pending; and between two peers whose
\* stores stay equal the full-syncs come to an end.
C30_NoVerificationPendingAtDeadline ==
    /\ [][(/\ writeSyncVerificationTimeout = 0
           /\ writeSyncVerificationTimeout' = NoTimer
           /\ forceFullSyncTimeout' = fullStateDebounceTimeout
           /\ forceFullSyncArgs' = "timeout") =>
              verifyTimeout = NoTimer]_vars
    /\ (<>[](readOnly = writable)) => <>[](~EmittedFullSync)

\* C31: a live channel keeps announcing the fingerprint of its read-only
\* store at least once per writeResyncThreshold, also when no further state
\* arrives: every announcement leaves the next one scheduled within
\* writeResyncThreshold.
C31_FingerprintHeartbeat ==
    [][(emittedB' # << >> /\ channel' = "constructed") =>
           readOnlySyncHashVerifierTimeout' \in 0..writeResyncThreshold]_vars

\* C32: every partial-sync emission leaves the deadline armed afresh for
\* writeResyncThreshold, and a full-sync requested by an expired deadline is
\* emitted no earlier than writeResyncThreshold after the latest partial-sync.
C32_DeadlineRestartsOnPartial ==
    /\ (lastOp.op = "setState" /\ emittedA # << >>) =>
           writeSyncVerificationTimeout = writeResyncThreshold
    /\ (/\ lastOp.op = "forceFullSyncRuns"
        /\ lastOp.reason = "timeout"
        /\ lastOp.age # -1) => lastOp.age >= writeResyncThreshold

\* C33: when a listener of the full-sync event throws during a forced or
\* timer-driven resync, the deadline timer is armed afterwards all the same:
\* every run of forceFullSync leaves the deadline armed.
C33_DeadlineArmedDespiteListenerError ==
    (lastOp.op = "forceFullSyncRuns") => writeSyncVerificationTimeout # NoTimer

C35_SuppliedOptionsReplaceDefaults ==
    /\ []((lastOp.op = "new" /\ channel = "constructed") =>
              /\ DOMAIN getOptions = DOMAIN DEFAULT_OPTIONS
              /\ \A k \in DOMAIN DEFAULT_OPTIONS :
                     getOptions[k] = IF k \in DOMAIN lastOp.options
                                     THEN lastOp.options[k]
                                     ELSE DEFAULT_OPTIONS[k])
    /\ [][(channel = "constructed") => options' = options]_vars
    /\ []((lastOp.op = "setState" /\ emittedA # << >>) =>
              writeSyncVerificationTimeout = getOptions.writeResyncThreshold)
    /\ []((lastOp.op = "forceFullSyncRuns") =>
              /\ lastOp.waited = getOptions.fullStateDebounceTimeout
              /\ writeSyncVerificationTimeout = getOptions.writeResyncThreshold)

\* a channel constructed with { fullStateDebounceTimeout } alone emitted a
\* full-sync after the supplied debounce and armed the default deadline
C35_Witness ==
    /\ lastOp.op = "forceFullSyncRuns"
    /\ lastOp.waited = OptFullStateDebounceTimeout + 1
    /\ getOptions.fullStateDebounceTimeout = OptFullStateDebounceTimeout + 1
    /\ writeSyncVerificationTimeout = DefaultWriteResyncThreshold

\* C36: every merge setState that changes the store's state, so that the
\* fingerprint after the call differs from the one before it, emits a change
\* notification.
C36_NoSilentMerge ==
    (/\ lastOp.op = "setState"
     /\ lastOp.isMerge
     /\ getHash(writable) # getHash(lastOp.prev)) => emittedA # << >>

\* C37: a replace setState on the writable store with a valid state makes
\* the channel emit one partial-sync, and no full-sync, whose payload is the
\* complete new state, whether or not that state differs from the old one,
\* and leaves the deadline armed for writeResyncThreshold.
C37_ReplaceEmitsPartialSync ==
    (/\ lastOp.op = "setState"
     /\ ~lastOp.isMerge
     /\ validateState(lastOp.state)) =>
        /\ lastOp.ret = "void"
        /\ emittedA = << PartialSync(lastOp.state) >>
        /\ emittedA[1].state = writable
        /\ ~EmittedFullSync
        /\ writeSyncVerificationTimeout = writeResyncThreshold

\* {a: 2} was replaced by {a: 2} while no deadline was armed: the whole state
\* went out as a partial-sync and the deadline is armed
C37_Witness ==
    /\ lastOp.op = "setState"
    /\ ~lastOp.isMerge
    /\ lastOp.prev = (<<"a">> :> "2")
    /\ lastOp.state = lastOp.prev
    /\ emittedA = << PartialSync(<<"a">> :> "2") >>
    /\ writeSyncVerificationTimeout = writeResyncThreshold

\* the deadline timers that are pending: the one whose id the field holds
\* and those whose id has been overwritten (timers of equal remaining time
\* counted once)
PendingDeadlineTimers ==
    Cardinality(orphanedTimeouts) +
        (IF writeSyncVerificationTimeout = NoTimer THEN 0 ELSE 1)

\* C38: at most one deadline timer is pending per channel in every state,
\* also when a listener of the partial-sync or full-sync event re-enters the
\* channel during the emission, and a verification that matches leaves no
\* deadline timer pending.
C38_OneDeadlineTimer ==
    /\ PendingDeadlineTimers <= 1
    /\ (lastOp.op = "verifyRuns" /\ verifyResult = "true") =>
           PendingDeadlineTimers = 0

\* C39: after a verification has matched, no full-sync is emitted until a
\* new trigger occurs (an expired deadline, a mismatch or a call of
\* forceFullSync): a forced resync that is waiting in the debounce when the
\* verification matches does not run.
C39_NoFullSyncAfterMatch ==
    [][(lastOp'.op = "forceFullSyncRuns") => ~matchedWhilePending]_vars

\* no timer of the outbound half is pending: neither the verification
\* deadline nor one of the two debounces
NoOutboundTimerPending ==
    /\ writeSyncVerificationTimeout = NoTimer
    /\ orphanedTimeouts = {}
    /\ forceFullSyncTimeout = NoTimer
    /\ verifyTimeout = NoTimer

\* C40: a newly constructed channel is idle: the construction emits no
\* partial-sync and no full-sync event and leaves no timer pending, whatever
\* the writable store holds; a channel with no timer pending emits an event
\* only when the writable store is mutated, and gets a timer only by such a
\* mutation or by a call of forceFullSync or verifyReadOnlySyncUpdateHash.
C40_ConstructedChannelIsIdle ==
    [][/\ (lastOp'.op = "new" /\ channel' = "constructed") =>
              (emittedA' = << >> /\ NoOutboundTimerPending')
       /\ (channel = "constructed" /\ NoOutboundTimerPending
               /\ ~NoOutboundTimerPending') =>
              lastOp'.op \in {"setState", "forceFullSync", "verify"}
       /\ (channel = "constructed" /\ NoOutboundTimerPending
               /\ emittedA' # << >>) =>
              lastOp'.op = "setState"]_vars

\* a channel just constructed over a store that is not empty: nothing is
\* emitted and no timer is pending
C40_Witness ==
    /\ lastOp.op = "new"
    /\ channel = "constructed"
    /\ writable # EmptyState
    /\ emittedA = << >>
    /\ NoOutboundTimerPending

====
